---- MODULE Spec2Model ----
(***************************************************************************)
(* A model of the owning_bytes crate (src/src/lib.rs): OwningByteBuf<T>,   *)
(* a container that owns a heap block of bytes by raw address together     *)
(* with a value T built by a caller-supplied function from a view of those *)
(* bytes.  One storage handle, one construction call and the life of the   *)
(* container it yields are followed statement by statement, together with  *)
(* the heap block, every release of it, and the views a caller can copy    *)
(* out of the derived value.                                               *)
(***************************************************************************)
EXTENDS Integers, Sequences, FiniteSets, TLC

\* ------------------------------------------------------------------ bounds
MaxLen == 2
MaxSpare == 1
MaxGets == 2

\* ------------------------------------------------------- program constants
\* mem::size_of::<u8>()
ElemSize == 1
\* the non-null address as_mut_ptr() gives for storage that holds no allocation
DanglingPtr == 1

Byte == {0, 1}
Addrs == {16, 32}
Origins == {"vec", "box"}
ErrVals == {"e1", "e2"}

VARIABLES
    pc,        \* position of the one thread of control
    life,      \* lifecycle state of the construction / the container
    orig,      \* the storage as the caller supplied it (never written)
    heap,      \* the heap block behind the storage
    releases,  \* every release of byte memory so far, in order
    buf,       \* the handle passed to the constructor (Vec<u8> or Box<[u8]>)
    ctor,      \* the constructor called
    fn,        \* the constructing function passed
    loc,       \* the constructor's locals ptr, len (and cap)
    fres,      \* what the constructing function returned
    fcalls,    \* how many times the constructing function was invoked
    obj,       \* the OwningByteBuf's fields resource, len, cap
    inner,     \* the OwningByteBuf's field inner: T
    ret,       \* what the last finished call returned to the caller
    storage,   \* the byte storage handed back to the caller
    gets,      \* accessor calls made so far
    lastGet,   \* what the last accessor call returned
    escaped,   \* views the caller copied out of the derived value
    lastUse,   \* the last read through a copied-out view
    dropCtx    \* where the container's drop glue was entered from

vars == <<pc, life, orig, heap, releases, buf, ctor, fn, loc, fres, fcalls,
          obj, inner, ret, storage, gets, lastGet, escaped, lastUse, dropCtx>>

\* ------------------------------------------------------------------- heap
Cell(b) == [init |-> TRUE, val |-> b]
UninitCell == [init |-> FALSE, val |-> 0]

\* slice::from_raw_parts(ptr, n): the n cells at ptr (no cell is read when n = 0)
from_raw_parts(h, ptr, n) ==
    [i \in 1..n |-> IF h.addr = ptr /\ i <= Len(h.cells) THEN h.cells[i] ELSE UninitCell]

\* heap::deallocate(ptr, size, align), and the release a Vec or Box performs:
\* releasing anything but the live block with its allocated size corrupts the heap
deallocate(h, ptr, size) ==
    [h EXCEPT !.status = IF h.status = "allocated" /\ h.addr = ptr /\ h.size = size
                         THEN "freed" ELSE "corrupt"]

ReleaseRec(by, ptr, size) == [by |-> by, ptr |-> ptr, size |-> size]

\* bytes a Vec<u8> (capacity) or a Box<[u8]> (length) releases when dropped
HandleAllocSize(h) == IF h.kind = "vec" THEN h.cap ELSE h.len

\* ----------------------------------------------- the constructing function
\* A constructing function borrows the sub-range [lo, hi) of the view it is
\* given, as the crate's closures |buf| Test { buf: &buf[0..2] } do (slicing
\* past the end of the view panics), or fails with an error value.
Fns == {f \in [lo : 0..MaxLen, hi : 0..MaxLen, out : {"ok"} \cup ErrVals] : f.lo <= f.hi}

NoVal == [base |-> DanglingPtr, lo |-> 0, hi |-> 0, seen |-> <<>>]
NoRes == [tag |-> "none", val |-> NoVal, e |-> "ok"]

ApplyF(f, ptr, view) ==
    IF f.hi > Len(view) THEN [tag |-> "panic", val |-> NoVal, e |-> "ok"]
    ELSE IF f.out # "ok" THEN [tag |-> "Err", val |-> NoVal, e |-> f.out]
    ELSE [tag |-> "Ok",
          val |-> [base |-> ptr, lo |-> f.lo, hi |-> f.hi,
                   seen |-> SubSeq(view, f.lo + 1, f.hi)],
          e |-> "ok"]

\* ----------------------------------------------------------- constructors
\* a slip: let len = buf.capacity();
from_vec_locals_len_is_cap(b) == [ptr |-> b.ptr, len |-> b.cap, cap |-> b.cap]

\* let ptr = buf.as_mut_ptr(); let len = buf.len(); let cap = buf.capacity();
from_vec_locals(b) == [ptr |-> b.ptr, len |-> b.len, cap |-> b.cap]
from_vec_res_locals(b) == [ptr |-> b.ptr, len |-> b.len, cap |-> b.cap]
\* let ptr = buf.as_mut_ptr(); let len = buf.len();
from_box_locals(b) == [ptr |-> b.ptr, len |-> b.len]
from_box_res_locals(b) == [ptr |-> b.ptr, len |-> b.len]

\* OwningByteBuf { resource: Unique::new(ptr), len: len, cap: .., inner: .. }
\* a slip: cap: len in the Vec constructor
from_vec_len_as_cap(l) == [built |-> TRUE, resource |-> l.ptr, len |-> l.len, cap |-> l.len]
from_vec(l) == [built |-> TRUE, resource |-> l.ptr, len |-> l.len, cap |-> l.cap]
\* a slip: cap: len, as in the boxed constructors
from_vec_res_len_as_cap(l) ==
    [built |-> TRUE, resource |-> l.ptr, len |-> l.len, cap |-> l.len]
from_vec_res(l) == [built |-> TRUE, resource |-> l.ptr, len |-> l.len, cap |-> l.cap]
from_box(l) == [built |-> TRUE, resource |-> l.ptr, len |-> l.len, cap |-> l.len]
from_box_res(l) == [built |-> TRUE, resource |-> l.ptr, len |-> l.len, cap |-> l.len]

\* a slip: the address is taken with a call that gives the handle up at once
\* (as Box::into_raw does), before the function has run
handle_given_up_early(b) == [b EXCEPT !.state = "forgotten"]

\* buf.as_mut_ptr(), buf.len(), buf.capacity() borrow the handle: it stays owned
handle_after_locals(b) == b

\* a slip: the statement mem::forget(buf) is missing
forget_missing(b) == b

\* mem::forget(buf)
forget(b) == [b EXCEPT !.state = "forgotten"]

\* a slip: the Err arm falls through to the struct literal
match_f_err_builds(r) ==
    CASE r.tag = "Ok" -> "ctor_build"
      [] r.tag = "Err" -> "ctor_build"
      [] r.tag = "panic" -> "ctor_unwind"

\* match f(..) { Ok(t) => t, Err(e) => return Err((e, buf)) }: where control
\* goes once the function is back (a panic unwinds the constructor's frame)
match_f(r) ==
    CASE r.tag = "Ok" -> "ctor_build"
      [] r.tag = "Err" -> "ctor_err"
      [] r.tag = "panic" -> "ctor_unwind"

\* a slip: the view runs one byte past the length
ctor_view_past_len(h, l) == from_raw_parts(h, l.ptr, l.len + 1)

\* f(slice::from_raw_parts(ptr, len)): the view handed to the function
ctor_view(h, l) == from_raw_parts(h, l.ptr, l.len)

\* a slip: an empty handle is handed back, the one supplied is lost
err_storage_empty(b) == [kind |-> b.kind, ptr |-> DanglingPtr, len |-> 0, cap |-> 0,
                         state |-> "owned"]

\* a slip: the handle is handed back shrunk to its length
err_storage_shrunk(b) == [kind |-> b.kind, ptr |-> b.ptr, len |-> b.len, cap |-> b.len,
                          state |-> "owned"]

\* return Err((e, buf)): the handle itself is moved into the error
err_storage(b) == [kind |-> b.kind, ptr |-> b.ptr, len |-> b.len, cap |-> b.cap,
                   state |-> "owned"]

Locals(c, b) ==
    CASE c = "from_vec" -> from_vec_locals(b)
      [] c = "from_vec_res" -> from_vec_res_locals(b)
      [] c = "from_box" -> from_box_locals(b)
      [] c = "from_box_res" -> from_box_res_locals(b)

Struct(c, l) ==
    CASE c = "from_vec" -> from_vec(l)
      [] c = "from_vec_res" -> from_vec_res(l)
      [] c = "from_box" -> from_box(l)
      [] c = "from_box_res" -> from_box_res(l)

Fallible(c) == c \in {"from_vec_res", "from_box_res"}
CtorsFor(kind) == IF kind = "vec" THEN {"from_vec", "from_vec_res"}
                  ELSE {"from_box", "from_box_res"}

\* ------------------------------------------- accessor, decomposition, drop
\* a slip: the accessor hands out a fresh default value, not the field
get_default(o, i) == NoVal

\* &self.inner
get(o, i) == i.val

\* a slip: Vec::from_raw_parts(**resource, len, len)
into_vec_len_as_cap(o) == [kind |-> "vec", ptr |-> o.resource, len |-> o.len,
                           cap |-> o.len, state |-> "local"]

\* Vec::from_raw_parts(**resource, len, cap)
into_vec(o) == [kind |-> "vec", ptr |-> o.resource, len |-> o.len, cap |-> o.cap,
                state |-> "local"]

\* a slip: the statement self.cap = 0 is missing
zero_cap_missing(o) == o

\* a slip: self.len = 0 written twice, self.cap never cleared
zero_cap_clears_len(o) == [o EXCEPT !.len = 0]

\* self.cap = 0;
zero_cap(o) == [o EXCEPT !.cap = 0]

\* self.len = 0;
zero_len(o) == [o EXCEPT !.len = 0]

\* a slip: let num_bytes = elem_size * self.len;
num_bytes_of_len(o) == ElemSize * o.len

\* let num_bytes = elem_size * self.cap;
num_bytes(o) == ElemSize * o.cap

\* a slip: the test of num_bytes is missing
release_unconditional(n) == TRUE

\* if num_bytes > 0
release_needed(n) == n > 0

\* a slip: the address released is the end of the bytes, not their start
dealloc_ptr_past_len(o) == o.resource + o.len

\* *self.resource as *mut _
dealloc_ptr(o) == o.resource

NoObj == [built |-> FALSE, resource |-> DanglingPtr, len |-> 0, cap |-> 0]
NoStorage == [kind |-> "vec", ptr |-> DanglingPtr, len |-> 0, cap |-> 0, state |-> "none"]
NoUse == [made |-> FALSE, heap |-> "none", life |-> "None", read |-> <<>>]

\* ------------------------------------------------------------------- Init
Init ==
    \E kind \in Origins, len \in 0..MaxLen, spare \in 0..MaxSpare, a \in Addrs :
      \E bytes \in [1..len -> Byte] :
        LET cap == IF kind = "vec" THEN len + spare ELSE len
            ptr == IF cap = 0 THEN DanglingPtr ELSE a
            cells == [i \in 1..cap |-> IF i <= len THEN Cell(bytes[i]) ELSE UninitCell]
        IN  /\ kind = "box" => spare = 0
            /\ cap = 0 => \A x \in Addrs : a <= x
            /\ orig = [kind |-> kind, ptr |-> ptr, len |-> len, cap |-> cap,
                       cells |-> cells]
            /\ heap = [status |-> IF cap = 0 THEN "none" ELSE "allocated",
                       addr |-> ptr, size |-> cap, cells |-> cells]
            /\ buf = [kind |-> kind, ptr |-> ptr, len |-> len, cap |-> cap,
                      state |-> "owned"]
    /\ pc = "caller"
    /\ life = "None"
    /\ releases = <<>>
    /\ ctor = "from_vec"
    /\ fn = [lo |-> 0, hi |-> 0, out |-> "ok"]
    /\ loc = [ptr |-> DanglingPtr, len |-> 0]
    /\ fres = NoRes
    /\ fcalls = 0
    /\ obj = NoObj
    /\ inner = [state |-> "none", val |-> NoVal]
    /\ ret = [tag |-> "none", e |-> "ok"]
    /\ storage = NoStorage
    /\ gets = 0
    /\ lastGet = NoVal
    /\ escaped = {}
    /\ lastUse = NoUse
    /\ dropCtx = "none"


\* ----------------------------------------------------------- construction
\* The caller passes its storage handle and a constructing function to one of
\* the four constructors (the infallible ones take a function with no error).
CallCtor ==
    /\ pc = "caller"
    /\ \E c \in CtorsFor(buf.kind), f \in Fns :
         /\ ~Fallible(c) => f.out = "ok"
         /\ ctor' = c
         /\ fn' = f
    /\ pc' = "ctor_locals"
    /\ life' = "Constructing"
    /\ UNCHANGED <<orig, heap, releases, buf, loc, fres, fcalls, obj, inner, ret,
                   storage, gets, lastGet, escaped, lastUse, dropCtx>>

\* let ptr = ..; let len = ..; (let cap = ..;)
CtorLocals ==
    /\ pc = "ctor_locals"
    /\ loc' = Locals(ctor, buf)
    /\ buf' = handle_after_locals(buf)
    /\ pc' = "ctor_f"
    /\ UNCHANGED <<life, orig, heap, releases, ctor, fn, fres, fcalls, obj,
                   inner, ret, storage, gets, lastGet, escaped, lastUse, dropCtx>>

\* f(slice::from_raw_parts(ptr, len)): returns a value, returns Err(e) (the
\* match arm then leaves through return Err((e, buf))), or panics.
CtorCallF ==
    /\ pc = "ctor_f"
    /\ LET r == ApplyF(fn, loc.ptr, ctor_view(heap, loc))
       IN  /\ fres' = r
           /\ pc' = match_f(r)
    /\ fcalls' = fcalls + 1
    /\ UNCHANGED <<life, orig, heap, releases, buf, ctor, fn, loc, obj, inner,
                   ret, storage, gets, lastGet, escaped, lastUse, dropCtx>>

\* the struct literal: res = OwningByteBuf { .. }
CtorBuild ==
    /\ pc = "ctor_build"
    /\ obj' = Struct(ctor, loc)
    /\ inner' = [state |-> "live", val |-> fres.val]
    /\ pc' = "ctor_forget"
    /\ UNCHANGED <<life, orig, heap, releases, buf, ctor, fn, loc, fres, fcalls,
                   ret, storage, gets, lastGet, escaped, lastUse, dropCtx>>

\* mem::forget(buf)
CtorForget ==
    /\ pc = "ctor_forget"
    /\ buf' = forget(buf)
    /\ pc' = "ctor_ret"
    /\ UNCHANGED <<life, orig, heap, releases, ctor, fn, loc, fres, fcalls, obj,
                   inner, ret, storage, gets, lastGet, escaped, lastUse, dropCtx>>

\* res / Ok(res)
CtorReturn ==
    /\ pc = "ctor_ret"
    /\ ret' = [tag |-> IF Fallible(ctor) THEN "Ok" ELSE "Buf", e |-> "ok"]
    /\ life' = "Alive"
    /\ pc' = "alive"
    /\ UNCHANGED <<orig, heap, releases, buf, ctor, fn, loc, fres, fcalls, obj,
                   inner, storage, gets, lastGet, escaped, lastUse, dropCtx>>

\* Err(e) => return Err((e, buf))
CtorErr ==
    /\ pc = "ctor_err"
    /\ ret' = [tag |-> "Err", e |-> fres.e]
    /\ storage' = err_storage(buf)
    /\ buf' = [buf EXCEPT !.state = "moved"]
    /\ life' = "Failed"
    /\ pc' = "holding"
    /\ UNCHANGED <<orig, heap, releases, ctor, fn, loc, fres, fcalls, obj, inner,
                   gets, lastGet, escaped, lastUse, dropCtx>>

\* The constructing function panicked: the constructor's frame unwinds, which
\* drops the argument buf if the frame still owns it (no container was built,
\* none is dropped).
CtorUnwind ==
    /\ pc = "ctor_unwind"
    /\ buf' = IF buf.state = "owned" THEN [buf EXCEPT !.state = "dropped"] ELSE buf
    /\ IF buf.state = "owned" /\ HandleAllocSize(buf) > 0
       THEN /\ heap' = deallocate(heap, buf.ptr, HandleAllocSize(buf))
            /\ releases' = Append(releases,
                                  ReleaseRec("unwind", buf.ptr, HandleAllocSize(buf)))
       ELSE UNCHANGED <<heap, releases>>
    /\ ret' = [tag |-> "panic", e |-> "ok"]
    /\ life' = "Unwound"
    /\ pc' = "done"
    /\ UNCHANGED <<orig, ctor, fn, loc, fres, fcalls, obj, inner, storage, gets,
                   lastGet, escaped, lastUse, dropCtx>>

\* --------------------------------------------------------------- accessor
\* pub fn get(&self) -> &T
Get ==
    /\ pc = "alive"
    /\ gets < MaxGets
    /\ lastGet' = get(obj, inner)
    /\ gets' = gets + 1
    /\ UNCHANGED <<pc, life, orig, heap, releases, buf, ctor, fn, loc, fres,
                   fcalls, obj, inner, ret, storage, escaped, lastUse, dropCtx>>

\* fn as_ref(&self) -> &T { self.get() }
AsRef ==
    /\ pc = "alive"
    /\ gets < MaxGets
    /\ lastGet' = get(obj, inner)
    /\ gets' = gets + 1
    /\ UNCHANGED <<pc, life, orig, heap, releases, buf, ctor, fn, loc, fres,
                   fcalls, obj, inner, ret, storage, escaped, lastUse, dropCtx>>

\* The lifetime 'a of the view handed to f is chosen by the caller, and the
\* crate's own examples choose 'static (OwningByteBuf<ExampleParsed<'static>>,
\* OwningByteBuf<&'static str>): a borrowed view inside the derived value is
\* then Copy and outlives the borrow of the container (*parsed.get()).
CopyOut ==
    /\ pc = "alive"
    /\ gets > 0
    /\ lastGet \notin escaped
    /\ escaped' = escaped \cup {lastGet}
    /\ UNCHANGED <<pc, life, orig, heap, releases, buf, ctor, fn, loc, fres,
                   fcalls, obj, inner, ret, storage, gets, lastGet, lastUse, dropCtx>>

\* The caller reads the bytes of a view it copied out.  Reading released
\* memory is undefined: any bytes may be seen.
UseView ==
    /\ pc \in {"alive", "holding", "done"}
    /\ \E v \in escaped :
         /\ v.hi > v.lo
         /\ \E r \in [1..(v.hi - v.lo) -> {Cell(b) : b \in Byte}] :
              /\ heap.status = "allocated" => r = SubSeq(heap.cells, v.lo + 1, v.hi)
              /\ lastUse' = [made |-> TRUE, heap |-> heap.status, life |-> life,
                             read |-> r]
    /\ lastUse' # lastUse
    /\ UNCHANGED <<pc, life, orig, heap, releases, buf, ctor, fn, loc, fres,
                   fcalls, obj, inner, ret, storage, gets, lastGet, escaped, dropCtx>>

\* ---------------------------------------------------------- decomposition
\* let vec = { .. unsafe { Vec::from_raw_parts(**resource, len, cap) } };
IntoVecRebuild ==
    /\ pc = "alive"
    /\ storage' = into_vec(obj)
    /\ life' = "Decomposing"
    /\ pc' = "iv_cap"
    /\ UNCHANGED <<orig, heap, releases, buf, ctor, fn, loc, fres, fcalls, obj,
                   inner, ret, gets, lastGet, escaped, lastUse, dropCtx>>

\* self.cap = 0;
IntoVecZeroCap ==
    /\ pc = "iv_cap"
    /\ obj' = zero_cap(obj)
    /\ pc' = "iv_len"
    /\ UNCHANGED <<life, orig, heap, releases, buf, ctor, fn, loc, fres, fcalls,
                   inner, ret, storage, gets, lastGet, escaped, lastUse, dropCtx>>

\* self.len = 0;
IntoVecZeroLen ==
    /\ pc = "iv_len"
    /\ obj' = zero_len(obj)
    /\ pc' = "iv_drop_self"
    /\ UNCHANGED <<life, orig, heap, releases, buf, ctor, fn, loc, fres, fcalls,
                   inner, ret, storage, gets, lastGet, escaped, lastUse, dropCtx>>

\* ------------------------------------------------------------- destructor
\* impl Drop for OwningByteBuf: fn drop(&mut self)
DropImpl(ctx) ==
    /\ IF release_needed(num_bytes(obj))
       THEN /\ heap' = deallocate(heap, dealloc_ptr(obj), num_bytes(obj))
            /\ releases' = Append(releases,
                                  ReleaseRec("destructor", dealloc_ptr(obj), num_bytes(obj)))
       ELSE UNCHANGED <<heap, releases>>
    /\ dropCtx' = ctx
    /\ pc' = "drop_fields"

\* The container goes out of scope without having been decomposed.
Drop ==
    /\ pc = "alive"
    /\ DropImpl("scope")
    /\ life' = "Dropping"
    /\ UNCHANGED <<orig, buf, ctor, fn, loc, fres, fcalls, obj, inner, ret,
                   storage, gets, lastGet, escaped, lastUse>>

\* into_vec took self by value: self is dropped when into_vec's body ends.
IntoVecDropSelf ==
    /\ pc = "iv_drop_self"
    /\ DropImpl("into_vec")
    /\ UNCHANGED <<life, orig, buf, ctor, fn, loc, fres, fcalls, obj, inner, ret,
                   storage, gets, lastGet, escaped, lastUse>>

\* After Drop::drop has returned the fields are dropped: inner: T is the only
\* field with a destructor.  into_vec then returns vec to its caller.
DropFields ==
    /\ pc = "drop_fields"
    /\ inner' = [inner EXCEPT !.state = "dropped"]
    /\ IF dropCtx = "into_vec"
       THEN /\ storage' = [storage EXCEPT !.state = "owned"]
            /\ ret' = [tag |-> "Vec", e |-> "ok"]
            /\ life' = "Decomposed"
            /\ pc' = "holding"
       ELSE /\ life' = "Released"
            /\ pc' = "done"
            /\ UNCHANGED <<storage, ret>>
    /\ UNCHANGED <<orig, heap, releases, buf, ctor, fn, loc, fres, fcalls, obj,
                   gets, lastGet, escaped, lastUse, dropCtx>>

\* The caller disposes of the storage it got back (from Err or from into_vec).
DisposeStorage ==
    /\ pc = "holding"
    /\ storage.state = "owned"
    /\ storage' = [storage EXCEPT !.state = "dropped"]
    /\ IF HandleAllocSize(storage) > 0
       THEN /\ heap' = deallocate(heap, storage.ptr, HandleAllocSize(storage))
            /\ releases' = Append(releases,
                                  ReleaseRec("storage", storage.ptr, HandleAllocSize(storage)))
       ELSE UNCHANGED <<heap, releases>>
    /\ pc' = "done"
    /\ UNCHANGED <<life, orig, buf, ctor, fn, loc, fres, fcalls, obj, inner, ret,
                   gets, lastGet, escaped, lastUse, dropCtx>>

Next ==
    \/ CallCtor
    \/ CtorLocals
    \/ CtorCallF
    \/ CtorBuild
    \/ CtorForget
    \/ CtorReturn
    \/ CtorErr
    \/ CtorUnwind
    \/ Get
    \/ AsRef
    \/ CopyOut
    \/ UseView
    \/ IntoVecRebuild
    \/ IntoVecZeroCap
    \/ IntoVecZeroLen
    \/ Drop
    \/ IntoVecDropSelf
    \/ DropFields
    \/ DisposeStorage

Spec == Init /\ [][Next]_vars


\* =================================================================== claims
OrigView == SubSeq(orig.cells, 1, orig.len)
OrigHandle == [kind |-> orig.kind, ptr |-> orig.ptr, len |-> orig.len, cap |-> orig.cap]
OrigHeap == [status |-> IF orig.cap = 0 THEN "none" ELSE "allocated",
             addr |-> orig.ptr, size |-> orig.cap, cells |-> orig.cells]
Untouched == heap = OrigHeap /\ releases = <<>>

\* C1: when the constructing function of a fallible constructor returns
\* Err(e), the call returns Err((e, b')) with e the function's own failure
\* value and b' the storage supplied: same kind, address, length, capacity and
\* bytes, the memory neither released nor written; no container was built.
C1_FailureReturnsStorage ==
    /\ (fres.tag = "Err" /\ pc # "ctor_err") => life = "Failed"
    /\ life = "Failed" =>
         /\ Fallible(ctor)
         /\ fres.tag = "Err"
         /\ ret = [tag |-> "Err", e |-> fn.out]
         /\ storage.kind = orig.kind
         /\ storage.ptr = orig.ptr
         /\ storage.len = orig.len
         /\ storage.cap = orig.cap
         /\ ~obj.built
         /\ inner.state = "none"
         /\ gets = 0
         /\ heap.cells = orig.cells
         /\ pc = "holding" =>
              /\ storage.state = "owned"
              /\ Untouched
              /\ from_raw_parts(heap, storage.ptr, storage.len) = OrigView

C1_Witness ==
    /\ life = "Failed"
    /\ pc = "holding"
    /\ ctor = "from_vec_res"
    /\ ret.e = "e2"
    /\ orig.len > 0
    /\ orig.cap > orig.len

\* C2: into_vec of a container built from storage b returns storage with b's
\* address, length, capacity and bytes (capacity = length for a boxed b), the
\* memory still allocated and unwritten, however many accessor calls were made.
C2_RoundTrip ==
    life = "Decomposed" =>
        /\ ret.tag = "Vec"
        /\ storage.kind = "vec"
        /\ storage.ptr = orig.ptr
        /\ storage.len = orig.len
        /\ storage.cap = orig.cap
        /\ orig.kind = "box" => storage.cap = storage.len
        /\ heap.cells = orig.cells
        /\ pc = "holding" =>
             /\ storage.state = "owned"
             /\ Untouched
             /\ from_raw_parts(heap, storage.ptr, storage.len) = OrigView

C2_Witness ==
    /\ life = "Decomposed"
    /\ pc = "holding"
    /\ orig.kind = "vec"
    /\ orig.len > 0
    /\ orig.cap > orig.len
    /\ gets = 2

\* C3: every accessor call yields the constructing function applied to a view
\* of exactly the bytes [0, length) of the storage supplied, so the value never
\* covers a byte of the spare capacity, and the function is invoked exactly
\* once per construction.
C3_ViewCorrectness ==
    /\ fcalls = IF pc \in {"caller", "ctor_locals", "ctor_f"} THEN 0 ELSE 1
    /\ gets > 0 =>
         /\ ApplyF(fn, orig.ptr, OrigView).tag = "Ok"
         /\ lastGet = ApplyF(fn, orig.ptr, OrigView).val
         /\ lastGet.hi <= orig.len
         /\ \A i \in DOMAIN lastGet.seen :
              /\ lastGet.seen[i].init
              /\ lastGet.seen[i] = orig.cells[lastGet.lo + i]

C3_Witness ==
    /\ gets > 0
    /\ life = "Alive"
    /\ lastGet.lo = 1
    /\ lastGet.hi = 2
    /\ orig.cap > orig.len

\* C4: a container built by any of the four constructors from storage of
\* nonzero capacity and dropped without into_vec has had its memory released
\* exactly once, by the container's destructor, as the block allocated.
C4_DropReleasesOnce ==
    /\ (life \in {"Dropping", "Released"} /\ orig.cap > 0) =>
         /\ releases = <<ReleaseRec("destructor", orig.ptr, orig.cap)>>
         /\ heap.status = "freed"
    /\ life = "Released" => (pc = "done" /\ storage.state = "none")

C4_Witness ==
    /\ life = "Released"
    /\ ctor = "from_box_res"
    /\ orig.cap > 0
    /\ Len(releases) = 1

\* C5: for a container decomposed with into_vec, the destructor that runs as
\* into_vec returns releases nothing, and the memory is released exactly once,
\* by the disposal of the returned Vec (never, when the storage held none).
C5_DecomposeReleasesOnce ==
    /\ life \in {"Decomposing", "Decomposed"} =>
         /\ \A i \in DOMAIN releases : releases[i].by = "storage"
         /\ heap.status # "corrupt"
    /\ (life = "Decomposing" \/ (life = "Decomposed" /\ pc = "holding")) => Untouched
    /\ (life = "Decomposed" /\ pc = "done") =>
         /\ storage.state = "dropped"
         /\ releases = IF orig.cap > 0
                       THEN <<ReleaseRec("storage", orig.ptr, orig.cap)>>
                       ELSE <<>>
         /\ heap.status = IF orig.cap > 0 THEN "freed" ELSE "none"

C5_Witness ==
    /\ life = "Decomposed"
    /\ pc = "done"
    /\ orig.kind = "box"
    /\ Len(releases) = 1


\* C6: in no sequence of construct, get, into_vec and drop is the derived
\* value, or a view into the bytes that a caller obtained from it through get,
\* used after the byte memory was released by the destructor or handed back
\* by into_vec: every read through such a view happens while the container is
\* Alive and the memory allocated.
C6_BufferOutlivesUses ==
    lastUse.made => (lastUse.life = "Alive" /\ lastUse.heap = "allocated")

\* C7: a constructor that returns leaves exactly one of Alive (the function
\* returned a value) or Failed (it returned an error; storage handed back); a
\* panic of the function is no return.  An Alive container ends in exactly one
\* of Decomposed (through into_vec) or Released (through the destructor); the
\* accessor runs only on an Alive container and leaves it Alive; nothing
\* leaves Failed, Decomposed or Released, and no operation touches a container
\* there.
Terminal == {"Failed", "Decomposed", "Released", "Unwound"}

C7_Step ==
    /\ life = "None" => life' \in {"None", "Constructing"}
    /\ life = "Constructing" =>
         /\ life' \in {"Constructing", "Alive", "Failed", "Unwound"}
         /\ life' = "Alive" <=> (pc = "ctor_ret" /\ fres.tag = "Ok")
         /\ life' = "Failed" <=> (pc = "ctor_err" /\ fres.tag = "Err")
         /\ life' = "Unwound" <=> (pc = "ctor_unwind" /\ fres.tag = "panic")
    /\ life = "Alive" => life' \in {"Alive", "Decomposing", "Dropping"}
    /\ life = "Decomposing" => life' \in {"Decomposing", "Decomposed"}
    /\ life = "Dropping" => life' \in {"Dropping", "Released"}
    /\ life \in Terminal => (life' = life /\ UNCHANGED <<obj, inner, gets, lastGet>>)
    /\ gets' # gets => (life = "Alive" /\ life' = "Alive")
    /\ life' = "Alive" => (obj'.built /\ inner'.state = "live" /\ storage'.state = "none")
    /\ life' = "Failed" => (~obj'.built /\ storage'.state # "none")
    /\ life' = "Decomposed" => (inner'.state = "dropped" /\ storage'.state # "none")
    /\ life' = "Released" => (inner'.state = "dropped" /\ storage'.state = "none")

C8_GetStep ==
    gets' # gets =>
        /\ life = "Alive"
        /\ UNCHANGED <<pc, life, orig, heap, releases, buf, obj, inner, ret, storage,
                       fcalls, escaped, lastUse>>
        /\ lastGet' = inner.val
        /\ gets > 0 => lastGet' = lastGet

C8_GetIsPure ==
    /\ [][C8_GetStep]_vars
    /\ [](life = "Alive" /\ gets < MaxGets => ENABLED Get /\ ENABLED AsRef)

C8_Witness ==
    /\ life = "Alive"
    /\ gets = 2
    /\ lastGet.hi > lastGet.lo
    /\ orig.kind = "box"

\* C9: a fallible constructor whose function succeeds yields Ok of exactly
\* the container the infallible constructor of the same origin builds from the
\* same storage and function (same address, length, capacity and derived
\* value), with the handle forgotten and the memory untouched in the same way.
InfallibleTwin(c) == IF c \in {"from_vec", "from_vec_res"} THEN "from_vec" ELSE "from_box"

C9_FallibleSuccessSame ==
    life = "Alive" =>
        LET l == Locals(InfallibleTwin(ctor), OrigHandle)
            r == ApplyF(fn, l.ptr, ctor_view(OrigHeap, l))
        IN  /\ r.tag = "Ok"
            /\ obj = Struct(InfallibleTwin(ctor), l)
            /\ inner = [state |-> "live", val |-> r.val]
            /\ buf.state = "forgotten"
            /\ Untouched
            /\ ret.tag = IF Fallible(ctor) THEN "Ok" ELSE "Buf"

C9_Witness ==
    /\ life = "Alive"
    /\ ctor = "from_vec_res"
    /\ orig.cap > orig.len
    /\ inner.val.hi > inner.val.lo

\* C10: when a container is dropped without having been decomposed, the
\* derived value is dropped before the byte memory is released: the value is
\* never still live while the memory it borrows from is already freed.
C10_ValueDroppedBeforeRelease ==
    (dropCtx = "scope" /\ inner.state = "live") => heap.status # "freed"

\* C11: into_vec clears the recorded capacity and length after it has rebuilt
\* the storage handle and before the container's cleanup and the drop of the
\* derived value run: when the cleanup runs the capacity is zero, and the
\* cleanup releases nothing.
C11_State ==
    /\ pc = "iv_cap" =>
         /\ storage = into_vec(obj)
         /\ obj.cap = orig.cap
         /\ inner.state = "live"
    /\ pc = "iv_len" => (obj.cap = 0 /\ inner.state = "live" /\ dropCtx = "none")
    /\ pc = "iv_drop_self" =>
         /\ obj.cap = 0
         /\ obj.len = 0
         /\ inner.state = "live"
         /\ dropCtx = "none"
         /\ storage.state = "local"
         /\ storage.cap = orig.cap
    /\ (pc = "drop_fields" /\ dropCtx = "into_vec") =>
         /\ obj.cap = 0
         /\ obj.len = 0
         /\ inner.state = "live"
         /\ Untouched

C11_CleanupStep ==
    pc = "iv_drop_self" => (num_bytes(obj) = 0 /\ UNCHANGED <<heap, releases, inner, obj>>)

C11_DecomposeOrdering == []C11_State /\ [][C11_CleanupStep]_vars

C11_Witness ==
    /\ pc = "drop_fields"
    /\ dropCtx = "into_vec"
    /\ orig.cap > orig.len
    /\ inner.val.hi > inner.val.lo

\* C12: the destructor releases byte memory exactly when the recorded capacity
\* is nonzero, and then the block at the recorded address: a container of
\* capacity zero (from an empty Vec without capacity, an empty boxed slice, or
\* already decomposed) is destroyed with no release and no error, one of
\* capacity > 0 and length 0 is released.
C12_DestructorStep ==
    pc' = "drop_fields" =>
        IF obj.cap > 0
        THEN /\ releases' = Append(releases,
                                   ReleaseRec("destructor", obj.resource, obj.cap))
             /\ heap'.status = "freed"
        ELSE UNCHANGED <<heap, releases>>

C12_ReleaseIffCapacity ==
    /\ [][C12_DestructorStep]_vars
    /\ [](heap.status # "corrupt")

C12_Witness ==
    /\ life = "Released"
    /\ orig.kind = "vec"
    /\ orig.len = 0
    /\ orig.cap > 0
    /\ Len(releases) = 1

\* C13: the memory has at most one owner at a time: the caller's handle
\* before construction, the container while Alive, the returned storage after
\* a failed construction or a decomposition.  A handle and a container of
\* nonzero capacity refer to it together only across the single statement
\* that hands it over, and that statement calls nothing that could fail,
\* drops nothing and releases nothing.
HandleOwns(h) == h.state \in {"owned", "local"} /\ HandleAllocSize(h) > 0
ContainerOwns ==
    obj.built /\ obj.cap > 0 /\ life \in {"Constructing", "Alive", "Decomposing"}

Owners ==
    {o \in {"handle", "container", "storage"} :
        \/ (o = "handle" /\ HandleOwns(buf))
        \/ (o = "container" /\ ContainerOwns)
        \/ (o = "storage" /\ HandleOwns(storage))}

C13_State ==
    /\ Cardinality(Owners) <= 2
    /\ Cardinality(Owners) = 2 =>
         \/ (pc = "ctor_forget" /\ Owners = {"handle", "container"})
         \/ (pc = "iv_cap" /\ Owners = {"container", "storage"})
    /\ orig.cap > 0 =>
         /\ pc = "caller" => Owners = {"handle"}
         /\ life = "Alive" => Owners = {"container"}
         /\ (life \in {"Failed", "Decomposed"} /\ pc = "holding") => Owners = {"storage"}

C13_HandOverStep ==
    Cardinality(Owners) = 2 =>
        /\ UNCHANGED <<heap, releases, fcalls, fres, inner, dropCtx, life>>
        /\ Cardinality(Owners') = 1

C13_SingleOwner == []C13_State /\ [][C13_HandOverStep]_vars

C13_Witness ==
    /\ pc = "iv_cap"
    /\ Owners = {"container", "storage"}
    /\ orig.kind = "box"

\* C14: on the Err path of a fallible constructor nothing is released inside
\* the constructor, no container was built and no container destructor runs,
\* the handle supplied is not forgotten but moved out to the caller, and the
\* memory is released exactly once, later, by the disposal of the returned
\* storage (never, when the storage held none).
C14_FailureNoLeakNoFree ==
    /\ pc = "ctor_err" => (buf.state = "owned" /\ ~obj.built /\ Untouched)
    /\ life = "Failed" =>
         /\ buf.state = "moved"
         /\ ~obj.built
         /\ inner.state = "none"
         /\ dropCtx = "none"
         /\ \A i \in DOMAIN releases : releases[i].by = "storage"
         /\ pc = "holding" => (HandleOwns(storage) <=> orig.cap > 0) /\ Untouched
         /\ pc = "done" =>
              /\ storage.state = "dropped"
              /\ releases = IF orig.cap > 0
                            THEN <<ReleaseRec("storage", orig.ptr, orig.cap)>>
                            ELSE <<>>
              /\ heap.status = IF orig.cap > 0 THEN "freed" ELSE "none"

C14_Witness ==
    /\ life = "Failed"
    /\ pc = "done"
    /\ ctor = "from_box_res"
    /\ Len(releases) = 1

\* C15: while a container is Alive its recorded address, length and capacity
\* do not change, no operation reallocates, resizes, moves or writes the
\* memory, and the byte range the derived value borrows lies inside
\* [0, length) of the storage.
C15_State ==
    life = "Alive" =>
        /\ heap = OrigHeap
        /\ heap.addr = obj.resource
        /\ heap.size = num_bytes(obj)
        /\ releases = <<>>
        /\ inner.state = "live"
        /\ inner.val.base = obj.resource
        /\ 0 <= inner.val.lo
        /\ inner.val.lo <= inner.val.hi
        /\ inner.val.hi <= obj.len
        /\ inner.val.hi <= orig.len

C15_Step ==
    life = "Alive" =>
        /\ obj' = obj
        /\ inner'.val = inner.val
        /\ heap'.addr = heap.addr /\ heap'.size = heap.size /\ heap'.cells = heap.cells
        /\ life' = "Alive" => UNCHANGED <<heap, inner, releases>>

C15_StableWhileAlive == []C15_State /\ [][C15_Step]_vars

C15_Witness ==
    /\ life = "Alive"
    /\ gets = 1
    /\ escaped # {}
    /\ inner.val.lo = 0
    /\ inner.val.hi = orig.len
    /\ orig.len > 0
    /\ orig.cap > orig.len

\* C16: every Alive container records the address, the length and the
\* capacity of the storage it was built from, with length <= capacity: for a
\* boxed origin the recorded capacity equals the length, for a Vec origin it is
\* the Vec's capacity, which may exceed the length.
C16_RecordsStorage ==
    life = "Alive" =>
        /\ obj.built
        /\ obj.resource = orig.ptr
        /\ obj.len = orig.len
        /\ obj.len <= obj.cap
        /\ orig.kind = "box" => obj.cap = obj.len
        /\ orig.kind = "vec" => obj.cap = orig.cap

C16_Witness ==
    /\ life = "Alive"
    /\ ctor = "from_vec"
    /\ obj.cap > obj.len
    /\ obj.len > 0

\* C17: in all four constructors the handle supplied is given up
\* (mem::forget) only after the constructing function has returned a value and
\* the container has been built.  If the function panics, no container exists
\* and none is dropped, the handle still owns the memory, and the memory is
\* released exactly once, by the drop of that handle as the frame unwinds
\* (never, when the storage held none).
C17_PanicSafe ==
    /\ buf.state = "forgotten" => (fres.tag = "Ok" /\ obj.built /\ fcalls = 1)
    /\ fres.tag = "panic" =>
         /\ pc \in {"ctor_unwind", "done"}
         /\ ~obj.built
         /\ inner.state = "none"
         /\ dropCtx = "none"
         /\ storage.state = "none"
    /\ pc = "ctor_unwind" =>
         /\ buf.state = "owned"
         /\ Untouched
         /\ orig.cap > 0 => Owners = {"handle"}
    /\ life = "Unwound" =>
         /\ fres.tag = "panic"
         /\ buf.state = "dropped"
         /\ releases = IF orig.cap > 0
                       THEN <<ReleaseRec("unwind", orig.ptr, orig.cap)>>
                       ELSE <<>>
         /\ heap.status = IF orig.cap > 0 THEN "freed" ELSE "none"

C17_Witness ==
    /\ life = "Unwound"
    /\ ctor = "from_box"
    /\ orig.len > 0
    /\ Len(releases) = 1

\* C18: whenever the destructor releases memory it releases the recorded
\* capacity in bytes (not the length) at the recorded address, and these are
\* the address and the allocated size of the storage supplied to the
\* constructor, for a Vec origin (capacity may exceed length) and for a boxed
\* origin (capacity = length) alike.
C18_DestructorStep ==
    Len(releases') > Len(releases) /\ releases'[Len(releases')].by = "destructor" =>
        LET rel == releases'[Len(releases')]
        IN  /\ rel.ptr = obj.resource
            /\ rel.size = ElemSize * obj.cap
            /\ rel.ptr = orig.ptr
            /\ rel.size = HandleAllocSize(OrigHandle)
            /\ rel.size = heap.size
            /\ heap.status = "allocated"
            /\ heap'.status = "freed"

C18_ReleasesRecordedBlock == [][C18_DestructorStep]_vars

C18_Witness ==
    /\ life = "Dropping"
    /\ orig.kind = "vec"
    /\ orig.cap > orig.len
    /\ orig.len > 0
    /\ Len(releases) = 1
    /\ releases[1].by = "destructor"

====
